---- MODULE Spec2Model ----
(***************************************************************************)
(* Model of gxp-fru-device (src/src/GxpFruDevice.cpp): the EEPROM record   *)
(* decoder (GetStr, GetMACAddress, GetServerId) and the D-Bus object       *)
(* lifecycle (main, rescanBus, AddFRUObjectToDbus).                        *)
(*                                                                         *)
(* Strings are sequences of character codes (0..255).  Files are records   *)
(* [openable, data]; data is the byte content.  The object server is the   *)
(* map of registered interface objects, keyed by object identity.         *)
(***************************************************************************)
EXTENDS Integers, Sequences, FiniteSets, TLC

(* ------------------------------ bounds --------------------------------- *)
\* number of FRU objects the model lets the daemon create (startup scan
\* included); caps the object-identity counter
MaxScans == 3
\* number of distinct content patterns a full-length EEPROM image can carry
NumSeeds == 2
\* lengths of the truncated EEPROM images the environment can present
ShortLens == {100, 166}
\* length of a full EEPROM image: every field lies inside it
FullLen == 176

(* --------------------------- program constants ------------------------- *)
NumEeproms == 3
SerialNumberOffset == 1
SerialNumberSize == 16
PartNumberOffset == 109
PartNumberSize == 16
PcaSerialNumberOffset == 144
PcaSerialNumberSize == 16
PcaPartNumberOffset == 160
PcaPartNumberSize == 16
MAC0AddressOffset == 132
MAC1AddressOffset == 138
MACAddressSize == 6

\* "Unknown"
unknown == <<85, 110, 107, 110, 111, 119, 110>>
\* "Hewlett Packard Enterprise"
manufacturer == <<72, 101, 119, 108, 101, 116, 116, 32, 80, 97, 99, 107, 97,
                  114, 100, 32, 69, 110, 116, 101, 114, 112, 114, 105, 115, 101>>

FruPath == "/xyz/openbmc_project/FruDevice/HPE"
ManagerPath == "/xyz/openbmc_project/FruDevice"
NULL == 0 - 1

(* ----------------------------- environment ----------------------------- *)
\* content of an EEPROM image: byte at 0-based position p
Image(len, seed) == [i \in 1..len |-> ((i - 1) * 7 + seed * 64) % 256]

NoFile == [openable |-> FALSE, data |-> <<>>]

EepromFiles ==
    {NoFile}
      \cup {[openable |-> TRUE, data |-> Image(l, 1)] : l \in ShortLens}
      \cup {[openable |-> TRUE, data |-> Image(FullLen, s)] : s \in 1..NumSeeds}

\* identity file: missing, empty, "SN123\n", "AB\nCD"
ServerIdFiles ==
    { NoFile,
      [openable |-> TRUE, data |-> <<>>],
      [openable |-> TRUE, data |-> <<83, 78, 49, 50, 51, 10>>],
      [openable |-> TRUE, data |-> <<65, 66, 10, 67, 68>>] }

VARIABLES
    charSigned,      \* build: plain char is signed (x86) or unsigned (ARM)
    eepromFiles,     \* the three EEPROM candidates, in priority order
    serverIdFile,    \* /sys/class/soc/xreg/server_id
    interfaces,      \* objServer: registered interface objects, by identity
    ifaceFruDevice,  \* main's handle to the FRU object, NULL before the scan
    nextId,          \* identity of the next object add_interface creates
    opens,           \* candidates fin.open() was called on in the last scan
    pc               \* position of the single thread

vars == <<charSigned, eepromFiles, serverIdFile, interfaces, ifaceFruDevice,
          nextId, opens, pc>>

(* ------------------------------ std::ifstream -------------------------- *)
\* a default-constructed std::ifstream
NewStream == [is_open |-> FALSE, fail |-> FALSE, data |-> <<>>]

\* variant: a successful open keeps the error state of an earlier failed open
\* (the behaviour before C++11)
Open_NoClear(fin, file) ==
    IF file.openable /\ ~fin.is_open
    THEN [is_open |-> TRUE, fail |-> fin.fail, data |-> file.data]
    ELSE [fin EXCEPT !.fail = TRUE]

\* fin.open(path): a failed open sets failbit, a successful one clears the
\* state (C++11 and later)
Open(fin, file) ==
    IF file.openable /\ ~fin.is_open
    THEN [is_open |-> TRUE, fail |-> FALSE, data |-> file.data]
    ELSE [fin EXCEPT !.fail = TRUE]

\* fin.close()
Close(fin) == [fin EXCEPT !.is_open = FALSE, !.data = <<>>]

\* std::vector<char> v(size); fin.seekg(offset); fin.read(v.data(), size):
\* v is value-initialised, the bytes that exist overwrite its prefix, and a
\* read of fewer than size bytes sets eofbit and failbit
SeekRead(fin, offset, size) ==
    LET avail == IF Len(fin.data) > offset THEN Len(fin.data) - offset ELSE 0
        got   == IF avail < size THEN avail ELSE size
    IN  [v   |-> [k \in 1..size |-> IF k <= got THEN fin.data[offset + k] ELSE 0],
         fin |-> [fin EXCEPT !.fail = (got < size)]]

(* ------------------------------ GetServerId ---------------------------- *)
RECURSIVE LineEnd(_, _)
\* index of the last character before the first '\n' at or after position i
LineEnd(data, i) ==
    IF i > Len(data) \/ data[i] = 10 THEN i - 1 ELSE LineEnd(data, i + 1)

\* std::getline(fin, id): the characters before the first newline; the empty
\* string when nothing could be extracted
getline(data) == SubSeq(data, 1, LineEnd(data, 1))

GetServerId(file) ==
    IF ~file.openable THEN unknown ELSE getline(file.data)

GetManufactuer == manufacturer

(* --------------------------------- GetStr ------------------------------ *)
GetStr(fin, offset, size) ==
    IF fin.fail
    THEN [ret |-> unknown, fin |-> fin]
    ELSE LET r == SeekRead(fin, offset, size)
         IN  [ret |-> r.v, fin |-> r.fin]

(* ------------------------------ GetMACAddress -------------------------- *)
\* character code of a lowercase hex digit
HexDigit(d) == IF d < 10 THEN 48 + d ELSE 87 + d

RECURSIVE HexDigits(_)
\* hex digits of a non-negative number, no padding
HexDigits(n) ==
    IF n < 16 THEN <<HexDigit(n)>>
    ELSE Append(HexDigits(n \div 16), HexDigit(n % 16))

\* left-pad with '0' to width w (std::setfill('0'), std::setw(w))
SetW(w, s) ==
    IF Len(s) >= w THEN s ELSE [k \in 1..(w - Len(s)) |-> 48] \o s

\* static_cast<int>(char): sign-extends when plain char is signed
CharToInt(signed, b) == IF signed /\ b >= 128 THEN b - 256 ELSE b

\* ss << std::setbase(16) << int: a negative int prints as its 32-bit
\* two's complement value
HexOfInt(n) ==
    IF n >= 0 THEN HexDigits(n)
    ELSE LET m == (n + 2147483647) + 1
         IN  <<HexDigit(8 + (m \div 268435456))>>
                 \o SetW(7, HexDigits(m % 268435456))

RECURSIVE FormatFrom(_, _, _)
\* the loop of lines 132-134: ":" and the next group, for i..size
FormatFrom(signed, v, i) ==
    IF i > Len(v) THEN <<>>
    ELSE <<58>> \o SetW(2, HexOfInt(CharToInt(signed, v[i])))
              \o FormatFrom(signed, v, i + 1)

\* lines 129-135
FormatMAC(signed, v) ==
    SetW(2, HexOfInt(CharToInt(signed, v[1]))) \o FormatFrom(signed, v, 2)

GetMACAddress(signed, fin, offset) ==
    LET r == IF ~fin.fail
             THEN SeekRead(fin, offset, MACAddressSize)
             ELSE [v |-> [k \in 1..MACAddressSize |-> 0], fin |-> fin]
    IN  [ret |-> FormatMAC(signed, r.v), fin |-> r.fin]

(* --------------------------- sdbusplus object server ------------------- *)
PropertyNames ==
    {"SERVER_ID", "PRODUCT_MANUFACTURER", "PRODUCT_PART_NUMBER",
     "PRODUCT_SERIAL_NUMBER", "PCA_PART_NUMBER", "PCA_SERIAL_NUMBER",
     "MAC0", "MAC1"}

EepromPropertyNames ==
    {"PRODUCT_PART_NUMBER", "PRODUCT_SERIAL_NUMBER", "PCA_PART_NUMBER",
     "PCA_SERIAL_NUMBER", "MAC0", "MAC1"}

\* objServer.add_interface(path, name): a new, uninitialised interface object
add_interface(path, name) ==
    [path |-> path, name |-> name, props |-> <<>>, methods |-> {},
     initialized |-> FALSE]

\* variant: every registration is refused
register_property_Refused(obj, name, value) == obj

\* iface->register_property(name, value): refused once the interface is
\* initialised or when the name is already registered
register_property(obj, name, value) ==
    IF obj.initialized \/ name \in DOMAIN obj.props
    THEN obj
    ELSE [obj EXCEPT !.props = (name :> value) @@ obj.props]

\* iface->register_method(name, handler)
register_method(obj, name) ==
    IF obj.initialized THEN obj
    ELSE [obj EXCEPT !.methods = obj.methods \cup {name}]

\* variant: initialize() is never reached, the object stays off the bus
initialize_Skipped(obj) == obj

\* iface->initialize(): the object appears on the bus
initialize(obj) == [obj EXCEPT !.initialized = TRUE]

\* variant: the removal finds nothing to erase
remove_interface_Noop(ifaces, id) == ifaces

\* variant: the removal erases the manager object (identity 0) instead
remove_interface_Manager(ifaces, id) ==
    [o \in DOMAIN ifaces \ {0} |-> ifaces[o]]

\* objServer.remove_interface(iface)
remove_interface(ifaces, id) ==
    [o \in DOMAIN ifaces \ {id} |-> ifaces[o]]

(* ---------------------------- AddFRUObjectToDbus ----------------------- *)
\* lines 171-177: the body run on the candidate that opened
DecodeInto(signed, fin, obj) ==
    LET part   == GetStr(fin, PartNumberOffset, PartNumberSize)
        serial == GetStr(part.fin, SerialNumberOffset, SerialNumberSize)
        pcaP   == GetStr(serial.fin, PcaPartNumberOffset, PcaPartNumberSize)
        pcaS   == GetStr(pcaP.fin, PcaSerialNumberOffset, PcaSerialNumberSize)
        mac0   == GetMACAddress(signed, pcaS.fin, MAC0AddressOffset)
        mac1   == GetMACAddress(signed, mac0.fin, MAC1AddressOffset)
        o1 == register_property(obj, "PRODUCT_PART_NUMBER", part.ret)
        o2 == register_property(o1, "PRODUCT_SERIAL_NUMBER", serial.ret)
        o3 == register_property(o2, "PCA_PART_NUMBER", pcaP.ret)
        o4 == register_property(o3, "PCA_SERIAL_NUMBER", pcaS.ret)
        o5 == register_property(o4, "MAC0", mac0.ret)
        o6 == register_property(o5, "MAC1", mac1.ret)
    IN  [fin |-> Close(mac1.fin), obj |-> o6]

RECURSIVE ScanLoop(_, _, _, _, _, _)
\* lines 168-180: for (eeprom : eeproms) { open; if (is_open) {...; break;} }
ScanLoop(signed, files, i, fin, obj, opened) ==
    IF i > NumEeproms
    THEN [obj |-> obj, opens |-> opened]
    ELSE LET fin1 == Open(fin, files[i])
         IN  IF fin1.is_open
             THEN [obj   |-> DecodeInto(signed, fin1, obj).obj,
                   opens |-> Append(opened, i)]
             ELSE ScanLoop(signed, files, i + 1, fin1, obj, Append(opened, i))

\* lines 164-180: every register_property call of AddFRUObjectToDbus
RegisterAll(signed, idFile, files, obj) ==
    LET o1 == register_property(obj, "SERVER_ID", GetServerId(idFile))
        o2 == register_property(o1, "PRODUCT_MANUFACTURER", GetManufactuer)
    IN  ScanLoop(signed, files, 1, NewStream, o2, <<>>)

(* -------------------------------- actions ------------------------------ *)
Init ==
    /\ charSigned \in BOOLEAN
    /\ eepromFiles \in [1..NumEeproms -> EepromFiles]
    /\ serverIdFile \in ServerIdFiles
    /\ interfaces = <<>>
    /\ ifaceFruDevice = NULL
    /\ nextId = 0
    /\ opens = <<>>
    /\ pc = "start"

\* main, lines 200-211: register the manager object, then call rescanBus
Main ==
    /\ pc = "start"
    /\ interfaces' = (nextId :> initialize(register_method(
                          add_interface(ManagerPath,
                              "xyz.openbmc_project.FruDeviceManager"),
                          "ReScan"))) @@ interfaces
    /\ nextId' = nextId + 1
    /\ pc' = "rescan"
    /\ UNCHANGED <<charSigned, eepromFiles, serverIdFile, ifaceFruDevice, opens>>

\* the bus dispatches a ReScan() call to the handler of line 205
ReScan ==
    /\ pc = "idle"
    /\ nextId <= MaxScans
    /\ \E o \in DOMAIN interfaces :
          /\ interfaces[o].path = ManagerPath
          /\ interfaces[o].initialized
          /\ "ReScan" \in interfaces[o].methods
    /\ pc' = "rescan"
    /\ UNCHANGED <<charSigned, eepromFiles, serverIdFile, interfaces,
                   ifaceFruDevice, nextId, opens>>

\* variant: the null test is inverted, a live object is never removed
rescanBus_Inverted ==
    /\ pc = "rescan"
    /\ interfaces' = IF ifaceFruDevice = NULL
                     THEN remove_interface(interfaces, ifaceFruDevice)
                     ELSE interfaces
    /\ pc' = "add"
    /\ UNCHANGED <<charSigned, eepromFiles, serverIdFile, ifaceFruDevice,
                   nextId, opens>>

\* rescanBus, lines 187-189
rescanBus ==
    /\ pc = "rescan"
    /\ interfaces' = IF ifaceFruDevice # NULL
                     THEN remove_interface(interfaces, ifaceFruDevice)
                     ELSE interfaces
    /\ pc' = "add"
    /\ UNCHANGED <<charSigned, eepromFiles, serverIdFile, ifaceFruDevice,
                   nextId, opens>>

\* AddFRUObjectToDbus, line 162
AddInterface ==
    /\ pc = "add"
    /\ interfaces' = (nextId :> add_interface(FruPath,
                          "xyz.openbmc_project.FruDevice")) @@ interfaces
    /\ ifaceFruDevice' = nextId
    /\ nextId' = nextId + 1
    /\ pc' = "props"
    /\ UNCHANGED <<charSigned, eepromFiles, serverIdFile, opens>>

\* AddFRUObjectToDbus, lines 164-180
RegisterProperties ==
    /\ pc = "props"
    /\ LET r == RegisterAll(charSigned, serverIdFile, eepromFiles,
                            interfaces[ifaceFruDevice])
       IN  /\ interfaces' = [interfaces EXCEPT ![ifaceFruDevice] = r.obj]
           /\ opens' = r.opens
    /\ pc' = "init"
    /\ UNCHANGED <<charSigned, eepromFiles, serverIdFile, ifaceFruDevice, nextId>>

\* AddFRUObjectToDbus, line 182
Initialize ==
    /\ pc = "init"
    /\ interfaces' = [interfaces EXCEPT
                         ![ifaceFruDevice] = initialize(interfaces[ifaceFruDevice])]
    /\ pc' = "ret"
    /\ UNCHANGED <<charSigned, eepromFiles, serverIdFile, ifaceFruDevice,
                   nextId, opens>>

\* rescanBus returns to the event loop (io.run, line 213)
Return ==
    /\ pc = "ret"
    /\ pc' = "idle"
    /\ opens' = <<>>
    /\ UNCHANGED <<charSigned, eepromFiles, serverIdFile, interfaces,
                   ifaceFruDevice, nextId>>

\* between two handler runs an EEPROM candidate appears, disappears or
\* changes content
EepromChanges ==
    /\ pc = "idle"
    /\ \E i \in 1..NumEeproms, f \in EepromFiles :
          /\ f # eepromFiles[i]
          /\ eepromFiles' = [eepromFiles EXCEPT ![i] = f]
    /\ UNCHANGED <<charSigned, serverIdFile, interfaces, ifaceFruDevice,
                   nextId, opens, pc>>

\* between two handler runs the identity file changes
ServerIdChanges ==
    /\ pc = "idle"
    /\ \E f \in ServerIdFiles :
          /\ f # serverIdFile
          /\ serverIdFile' = f
    /\ UNCHANGED <<charSigned, eepromFiles, interfaces, ifaceFruDevice,
                   nextId, opens, pc>>

Next ==
    \/ Main
    \/ ReScan
    \/ rescanBus
    \/ AddInterface
    \/ RegisterProperties
    \/ Initialize
    \/ Return
    \/ EepromChanges
    \/ ServerIdChanges

Spec == Init /\ [][Next]_vars

(* ------------------------------ observations --------------------------- *)
\* identities of the objects registered at the FRU path
FruObjects == {o \in DOMAIN interfaces : interfaces[o].path = FruPath}

\* identities of the FRU objects visible on the bus
Published == {o \in FruObjects : interfaces[o].initialized}

TypeOK ==
    /\ pc \in {"start", "idle", "rescan", "add", "props", "init", "ret"}
    /\ nextId \in 0..(MaxScans + 1)
    /\ ifaceFruDevice \in {NULL} \cup 1..MaxScans

\* indices of the candidates that can be opened now
Openable == {i \in 1..NumEeproms : eepromFiles[i].openable}

\* the lowest-index candidate that can be opened
FirstOpenable == CHOOSE i \in Openable : \A j \in Openable : i <= j

\* properties of the object main's handle refers to
FruProps == interfaces[ifaceFruDevice].props

\* the manager objects, as registered
ManagerObjects == {o \in DOMAIN interfaces : interfaces[o].path = ManagerPath}

ManagerView == [o \in ManagerObjects |-> interfaces[o]]

ManagerRegistered ==
    /\ Cardinality(ManagerObjects) = 1
    /\ \A o \in ManagerObjects :
          interfaces[o].initialized /\ interfaces[o].methods = {"ReScan"}

\* the six fields a fresh stream on one file decodes to
FieldsOf(file) ==
    DecodeInto(charSigned, Open(NewStream, file),
               add_interface(FruPath, "xyz.openbmc_project.FruDevice")).obj.props

\* the bytes of data in offset .. offset+size-1 (0-based), zero where the
\* source has none
SourceBytes(data, offset, size) ==
    [k \in 1..size |-> IF offset + k <= Len(data) THEN data[offset + k] ELSE 0]

\* the first line of a text, without its newline
FirstLine(data) ==
    LET n == CHOOSE k \in 0..Len(data) :
                 /\ \A j \in 1..k : data[j] # 10
                 /\ (k = Len(data) \/ data[k + 1] = 10)
    IN  SubSeq(data, 1, n)

\* "hh": the two lowercase hex digits of a byte
TwoHex(b) == <<HexDigit(b \div 16), HexDigit(b % 16)>>

(* ================================ claims =============================== *)

\* C1: after the startup scan and after every completed ReScan() call,
\* whatever the EEPROM candidates and the identity file are, exactly one FRU
\* object is published at the FRU path, and it is the one main holds.
C1_ExactlyOnePublished ==
    pc \in {"ret", "idle"} =>
        /\ Cardinality(FruObjects) = 1
        /\ Published = FruObjects
        /\ FruObjects = {ifaceFruDevice}

\* a rescan has returned with nothing readable at all
C1_Witness ==
    /\ pc = "ret"
    /\ nextId >= 3
    /\ Openable = {}
    /\ ~serverIdFile.openable
    /\ Cardinality(Published) = 1

\* C2 (as claimed): when no candidate opens, the published object carries the
\* six EEPROM properties, each with the value "Unknown".
C2_AllUnknownWhenNoneOpens ==
    (pc = "ret" /\ Openable = {}) =>
        \A n \in EepromPropertyNames :
            n \in DOMAIN FruProps /\ FruProps[n] = unknown

\* C3 (as claimed): for an opened source of at least 166 bytes every decoded
\* field is the content of its own byte range, whatever happened to the reads
\* of the other fields.
C3_FieldsAreSourceBytes ==
    (pc = "ret" /\ Openable # {}) =>
        LET src == eepromFiles[FirstOpenable].data
        IN  Len(src) >= 166 =>
              /\ FruProps["PRODUCT_SERIAL_NUMBER"]
                    = SourceBytes(src, SerialNumberOffset, SerialNumberSize)
              /\ FruProps["PRODUCT_PART_NUMBER"]
                    = SourceBytes(src, PartNumberOffset, PartNumberSize)
              /\ FruProps["PCA_SERIAL_NUMBER"]
                    = SourceBytes(src, PcaSerialNumberOffset, PcaSerialNumberSize)
              /\ FruProps["PCA_PART_NUMBER"]
                    = SourceBytes(src, PcaPartNumberOffset, PcaPartNumberSize)
              /\ FruProps["MAC0"]
                    = FormatMAC(charSigned,
                          SourceBytes(src, MAC0AddressOffset, MACAddressSize))
              /\ FruProps["MAC1"]
                    = FormatMAC(charSigned,
                          SourceBytes(src, MAC1AddressOffset, MACAddressSize))

\* C4: a scan opens the candidates in priority order up to the first one that
\* opens and no further, and all six EEPROM fields are what that candidate
\* alone decodes to, whatever the failed opens before it.
C4_FirstOpenableOnly ==
    (pc = "ret" /\ Openable # {}) =>
        /\ opens = [i \in 1..FirstOpenable |-> i]
        /\ \A n \in EepromPropertyNames :
              /\ n \in DOMAIN FruProps
              /\ FruProps[n] = FieldsOf(eepromFiles[FirstOpenable])[n]

\* only the second candidate is taken: the first does not open, the third
\* opens and holds something else
C4_Witness ==
    /\ pc = "ret"
    /\ ~eepromFiles[1].openable
    /\ eepromFiles[2].openable
    /\ eepromFiles[3].openable
    /\ eepromFiles[3] # eepromFiles[2]
    /\ opens = <<1, 2>>
    /\ FruProps["PRODUCT_SERIAL_NUMBER"]
          = SourceBytes(eepromFiles[2].data, SerialNumberOffset, SerialNumberSize)

\* C5 (as claimed): the server identifier is "Unknown" when the identity file
\* cannot be opened or yields no line, and the first line without its newline
\* otherwise.
C5_ServerIdUnknownOnFailure ==
    pc = "ret" =>
        FruProps["SERVER_ID"] =
            IF ~serverIdFile.openable \/ serverIdFile.data = <<>>
            THEN unknown
            ELSE FirstLine(serverIdFile.data)

\* C6 (as claimed): a MAC of six bytes 0..255 is published as six two-digit
\* hex groups joined by colons, 17 characters, group i being byte i.
C6_MacIsSixHexGroups ==
    (pc = "ret" /\ Openable # {}) =>
        LET src == eepromFiles[FirstOpenable].data
            v   == SourceBytes(src, MAC0AddressOffset, MACAddressSize)
            str == FruProps["MAC0"]
        IN  Len(src) >= PcaPartNumberOffset + PcaPartNumberSize =>
              /\ Len(str) = 17
              /\ \A i \in 1..MACAddressSize :
                    /\ SubSeq(str, 3 * i - 2, 3 * i - 1) = TwoHex(v[i])
                    /\ (i > 1 => str[3 * i - 3] = 58)

\* C7: in every state, inside a scan or rescan included, at most one FRU
\* object is registered at the FRU path, and main's handle refers to it
\* whenever there is one.
C7_AtMostOneRegistered ==
    /\ Cardinality(FruObjects) <= 1
    /\ FruObjects # {} => FruObjects = {ifaceFruDevice}

\* inside a rescan, the replacement object registered and not yet on the bus
C7_Witness ==
    /\ pc = "init"
    /\ nextId >= 3
    /\ FruObjects = {ifaceFruDevice}
    /\ Published = {}

\* C8: a rescan started with an object published removes that object first;
\* a FRU object is only ever created when none is registered, with a new
\* identity, and an object on the bus is never changed in place.
C8_DestroyBeforeRecreate ==
    [][ /\ (pc = "rescan" /\ FruObjects # {}) => FruObjects' = {}
        /\ FruObjects' \ FruObjects # {} =>
              /\ FruObjects = {}
              /\ \A o \in FruObjects' : o >= nextId /\ ~interfaces'[o].initialized
        /\ \A o \in Published \cap FruObjects' : interfaces'[o] = interfaces[o]
      ]_vars

\* the window of a rescan: the old object is gone, the new one not yet made
C8_Witness ==
    /\ pc = "add"
    /\ ifaceFruDevice # NULL
    /\ FruObjects = {}

\* C9: when a scan or rescan returns, the published properties are exactly
\* those the identity file and the candidates give during that scan; nothing
\* is left from the object of the scan before.
C9_PropertiesAreFresh ==
    pc = "ret" =>
        /\ DOMAIN FruProps =
              {"SERVER_ID", "PRODUCT_MANUFACTURER"}
                 \cup (IF Openable # {} THEN EepromPropertyNames ELSE {})
        /\ FruProps["SERVER_ID"] = GetServerId(serverIdFile)
        /\ FruProps["PRODUCT_MANUFACTURER"] = manufacturer
        /\ Openable # {} =>
              \A n \in EepromPropertyNames :
                  FruProps[n] = FieldsOf(eepromFiles[FirstOpenable])[n]

\* a rescan has returned with the second content pattern in the first
\* candidate and a one-line identity file
C9_Witness ==
    /\ pc = "ret"
    /\ nextId >= 3
    /\ eepromFiles[1] = [openable |-> TRUE, data |-> Image(FullLen, 2)]
    /\ FruProps["PRODUCT_SERIAL_NUMBER"]
          = SubSeq(Image(FullLen, 2), SerialNumberOffset + 1,
                   SerialNumberOffset + SerialNumberSize)
    /\ FruProps["SERVER_ID"] = <<83, 78, 49, 50, 51>>

\* C10: the manager object with ReScan() is registered by the startup step,
\* before any FRU object exists, and no later step changes or removes it.
C10_ManagerPermanent ==
    [][ /\ pc = "start" => (FruObjects = {} /\ ManagerRegistered')
        /\ pc # "start" => (ManagerRegistered /\ ManagerView' = ManagerView)
      ]_vars

\* rescans have completed and the manager object is still there
C10_Witness ==
    /\ pc = "idle"
    /\ nextId >= 3
    /\ ManagerRegistered

====
